---- MODULE Spec2Model ----
(***************************************************************************)
(* A model of paicehusk_ansic.c: the rule compiler LoadRules, the          *)
(* acceptability test IsValid, RuleMatches, ApplyRule and the stemming     *)
(* loop StemWord, driven as main drives them: the rules are loaded once    *)
(* and then words are stemmed one after the other.                         *)
(*                                                                         *)
(* A C string is a sequence of one-character strings.  Two characters have *)
(* no printable form and are written as tokens: "NUL" is the byte 0 and    *)
(* "EOF" is what fgetc's EOF becomes once it is stored in a char.          *)
(***************************************************************************)
EXTENDS Integers, Sequences, FiniteSets, TLC

VARIABLES
  pc,        \* where the program is
  input,     \* the contents of the rule file
  pos,       \* LoadRules: how many characters fgetc has delivered
  file_ch,   \* LoadRules: file_ch
  line,      \* LoadRules: line
  rules,     \* the rule table: 26 lists of rules, indexed 0..25
  ret,       \* what LoadRules returned: "none" (still running), "NULL", "rules"
             \* (and, where IsValid or ApplyRule is run alone, what it gave back)
  word,      \* StemWord: word
  tracing,   \* StemWord: debug != NULL
  debug,     \* StemWord: the trace written to debug
  stem,      \* StemWord: stem
  intact,    \* StemWord: intact
  restem,    \* StemWord: restem
  rule       \* StemWord: rule, as the list that starts at the pointer (<<>> is NULL)

vars == <<pc, input, pos, file_ch, line, rules, ret,
          word, tracing, debug, stem, intact, restem, rule>>

loadVars == <<input, pos, file_ch, line, rules, ret>>
stemVars == <<word, tracing, debug, stem, intact, restem, rule>>

----------------------------------------------------------------------------
(* Buffer sizes *)

\* char stem[LONGSTR], char result[LONGSTR]: a stem holds LONGSTR - 1 characters.
LONGSTR == 255

----------------------------------------------------------------------------
(* Characters *)

\* The letters and digits in ASCII order: 'A' is 65, 'a' is 97, '0' is 48.
UpperCase ==
  << "A", "B", "C", "D", "E", "F", "G", "H", "I", "J", "K", "L", "M",
     "N", "O", "P", "Q", "R", "S", "T", "U", "V", "W", "X", "Y", "Z" >>
LowerCase ==
  << "a", "b", "c", "d", "e", "f", "g", "h", "i", "j", "k", "l", "m",
     "n", "o", "p", "q", "r", "s", "t", "u", "v", "w", "x", "y", "z" >>
Digits == << "0", "1", "2", "3", "4", "5", "6", "7", "8", "9" >>

IndexOf(seq, c) == CHOOSE i \in 1..Len(seq) : seq[i] = c
Has(seq, c) == \E i \in 1..Len(seq) : seq[i] = c

\* The value of a char as an int (char is signed: EOF stored in a char is -1).
Ord(c) ==
  IF c = "EOF" THEN 0 - 1
  ELSE IF c = "NUL" THEN 0
  ELSE IF c = "\n" THEN 10
  ELSE IF c = " " THEN 32
  ELSE IF c = "!" THEN 33
  ELSE IF c = "#" THEN 35
  ELSE IF c = "(" THEN 40
  ELSE IF c = ")" THEN 41
  ELSE IF c = "*" THEN 42
  ELSE IF c = "." THEN 46
  ELSE IF c = ":" THEN 58
  ELSE IF c = "=" THEN 61
  ELSE IF c = ">" THEN 62
  ELSE IF Has(Digits, c) THEN 47 + IndexOf(Digits, c)
  ELSE IF Has(UpperCase, c) THEN 64 + IndexOf(UpperCase, c)
  ELSE 96 + IndexOf(LowerCase, c)

isspace(c) == Ord(c) \in {32} \cup (9..13)
isdigit(c) == Ord(c) \in 48..57
isupper(c) == Ord(c) \in 65..90
islower(c) == Ord(c) \in 97..122
isalpha(c) == isupper(c) \/ islower(c)

Min(a, b) == IF a < b THEN a ELSE b
Max(a, b) == IF a < b THEN b ELSE a

\* strncpy(dst, src, n); dst[n] = 0 and strncat(dst, src, n): at most n characters.
Trunc(s, n) == SubSeq(s, 1, Min(Len(s), Max(n, 0)))

----------------------------------------------------------------------------
(* ReverseString *)

Swap(str, i, j) == [str EXCEPT ![i + 1] = str[j + 1], ![j + 1] = str[i + 1]]

RECURSIVE ReverseLoop(_, _, _, _)
ReverseLoop(str, i, last, half) ==
  IF i < half
    THEN ReverseLoop(Swap(str, i, last - i), i + 1, last, half)
    ELSE str

\* Line 114 as half = last / 2.
HalfOf_Short(last) == last \div 2

HalfOf(last) == (last + 1) \div 2

ReverseString(str) ==
  LET last == Len(str) - 1
      half == HalfOf(last)
  IN  ReverseLoop(str, 0, last, half)

----------------------------------------------------------------------------
(* IsValid *)

strchr(s, c) == \E i \in 1..Len(s) : s[i] = c

FirstIsVowel(s) == Len(s) > 0 /\ s[1] \in {"a", "e", "i", "o", "u"}

\* IsValid without line 279.
IsValid_NoY(s) ==
  IF FirstIsVowel(s)
    THEN Len(s) >= 2
    ELSE Len(s) >= 3 /\ (strchr(s, "a") \/ strchr(s, "e") \/ strchr(s, "i") \/
                         strchr(s, "o") \/ strchr(s, "u"))

IsValid(s) ==
  IF FirstIsVowel(s)
    THEN Len(s) >= 2
    ELSE Len(s) >= 3 /\ (strchr(s, "a") \/ strchr(s, "e") \/ strchr(s, "i") \/
                         strchr(s, "o") \/ strchr(s, "u") \/ strchr(s, "y"))

----------------------------------------------------------------------------
(* The rule file *)

\* The character at place i of the file, 1-based; fgetc gives EOF from the end on.
At(i) == IF i <= Len(input) THEN input[i] ELSE "EOF"

\* fgetc(rulefile): the character it delivers and the position after it.
Getc == At(pos + 1)
Advance(p) == Min(p, Len(input))

\* while (isalpha(file_ch)) { ...[str_idx++] = file_ch; file_ch = fgetc(rulefile); }
\* started with file_ch = At(i): the characters stored.
RECURSIVE AlphaRun(_)
AlphaRun(i) == IF isalpha(At(i)) THEN <<At(i)>> \o AlphaRun(i + 1) ELSE <<>>

\* while (isdigit(file_ch)) { ... }, likewise.
RECURSIVE DigitRun(_)
DigitRun(i) == IF isdigit(At(i)) THEN <<At(i)>> \o DigitRun(i + 1) ELSE <<>>

\* atoi of a run of digits.
RECURSIVE atoi(_)
atoi(digits) ==
  IF digits = <<>> THEN 0
  ELSE 10 * atoi(SubSeq(digits, 1, Len(digits) - 1))
       + (Ord(digits[Len(digits)]) - 48)

\* sprintf("%d", n) for n >= 0.
RECURSIVE Decimal(_)
Decimal(n) ==
  IF n < 10 THEN <<Digits[n + 1]>>
  ELSE Decimal(n \div 10) \o <<Digits[(n % 10) + 1]>>

\* strstr(s, t) != NULL
strstr(s, t) ==
  \E i \in 1..(Len(s) - Len(t) + 1) : SubSeq(s, i, i + Len(t) - 1) = t

\* The mark of line 225 without its digit.
EndMark_NoZero == << ":", "e", "n", "d", ".", ")" >>

\* The text line 225 looks for in the rule's id.
EndMark == << ":", "e", "n", "d", "0", ".", ")" >>

\* The element of a set of one element.
The(S) == CHOOSE x \in S : TRUE

\* Lines 211-223, with the suffix, the asterisk, the digits and the append
\* string of the n-th entry, which starts at place k, read.
ParseTerminator(k, n, sfx, star, digs, app) ==
  LET k4   == k + Len(sfx) + Len(star) + Len(digs) + Len(app)
      term == At(k4)
  IN  [ rule |-> [ intact |-> IF star = <<>> THEN 0 ELSE 1,
                   remove |-> IF Len(digs) > 0 THEN atoi(digs) ELSE 0,
                   restem |-> IF term = ">" THEN 1 ELSE 0,
                   suffix |-> ReverseString(sfx),
                   append |-> app,
                   id     |-> <<"(">> \o Decimal(n) \o <<":">> \o sfx \o star
                              \o digs \o app \o <<term, ")">> ],
        file_ch |-> term,
        at |-> k4 ]

\* Lines 201-209.
ParseAppend(k, n, sfx, star, digs) ==
  The({ ParseTerminator(k, n, sfx, star, digs, app) :
          app \in { AlphaRun(k + Len(sfx) + Len(star) + Len(digs)) } })

\* Lines 190-199.
ParseDigits(k, n, sfx, star) ==
  The({ ParseAppend(k, n, sfx, star, digs) :
          digs \in { DigitRun(k + Len(sfx) + Len(star)) } })

\* Lines 182-187.
ParseIntact(k, n, sfx) ==
  The({ ParseDigits(k, n, sfx, star) :
          star \in { IF At(k + Len(sfx)) = "*" THEN <<"*">> ELSE <<>> } })

\* One pass of LoadRules' loop body over the entry that starts at place k, the
\* entry being the n-th: the rule built, the character at the terminator's
\* place and that place.  The parts of the entry are read one after the other
\* (lines 170-179 the suffix, then the parts above), each from where the one
\* before it ended.
ParseRule(k, n) ==
  The({ ParseIntact(k, n, sfx) : sfx \in { AlphaRun(k) } })

\* rule_idx = file_ch - 97
RuleIdx(c) == Ord(c) - 97
ValidIdx(idx) == ~(idx < 0 \/ idx > 25)

\* The terminator test of lines 212-220: the entry is accepted.
ValidTerminator(c) == c = ">" \/ c = "."

\* The test of line 225.
IsPseudoRule(r) == strstr(r.id, EndMark)

\* AddRule with the list chosen by the letter the suffix starts with.
AddRule_BySuffixHead(table, idx, r) ==
  [table EXCEPT ![Ord(r.suffix[1]) - 97] = Append(@, r)]

\* AddRule with the rule put at the head of its letter's list.
AddRule_AtHead(table, idx, r) == [table EXCEPT ![idx] = <<r>> \o @]

\* Lines 232-245: the rule goes to the end of its letter's list.
AddRule(table, idx, r) == [table EXCEPT ![idx] = Append(@, r)]

EmptyTable == [i \in 0..25 |-> <<>>]

----------------------------------------------------------------------------
(* RuleMatches and ApplyRule *)

\* RuleMatches without the test of line 290.
RuleMatches_AnyTime(r, s, isIntact) ==
  IF Len(r.suffix) > Len(s) THEN FALSE
  ELSE IF r.suffix # SubSeq(s, Len(s) - Len(r.suffix) + 1, Len(s)) THEN FALSE
  ELSE TRUE

RuleMatches(r, s, isIntact) ==
  IF isIntact = 0 /\ r.intact # 0 THEN FALSE
  ELSE IF Len(r.suffix) > Len(s) THEN FALSE
  ELSE IF r.suffix # SubSeq(s, Len(s) - Len(r.suffix) + 1, Len(s)) THEN FALSE
  ELSE TRUE

\* newlen without lines 315-316: the zero of line 317 is then written before
\* the buffer, and the stem stays whole.
NewLen_NoClamp(len, remove) ==
  LET newlen == len - remove
  IN  IF newlen < 0 THEN len ELSE newlen

\* newlen of lines 314-316.
NewLen(len, remove) ==
  LET newlen == len - remove
  IN  IF newlen < 0 THEN 0 ELSE newlen

ApplyRule(r, s) ==
  LET copied == Trunc(s, LONGSTR - 1)
      cut    == IF r.remove # 0
                  THEN SubSeq(copied, 1, NewLen(Len(copied), r.remove))
                  ELSE copied
  IN  cut \o Trunc(r.append, LONGSTR - 1 - Len(cut))

----------------------------------------------------------------------------
(* The rule files and the words the model runs on *)

NL == <<"\n">>

\* Lines that hold a rule, with what the rule does.
RuleLines ==
  { <<"s", "e", "i", "3", "y", ".">> \o NL,            \* sei3y.   -ies -> -y, stop
    <<"s", "1", ">">> \o NL,                           \* s1>      -s  -> , go on
    <<"g", "n", "i", "3", ">", " ", "c">> \o NL,       \* gni3> c  -ing -> , go on
    <<"e", "*", "1", ">">> \o NL,                      \* e*1>     intact only
    <<"e", ">">> \o NL,                                \* e>       changes nothing, go on
    <<"s", "1", "A", ">">> \o NL,                      \* s1A>     appends a capital
    <<"s", "E", ".">> \o NL,                           \* sE.      a capital in the suffix
    <<"y", "9", "a", "t", ".">> \o NL }                \* y9at.    removes more than there is

BlankLines == { <<" ">> \o NL }

\* Lines the grammar has no place for.
BadLines ==
  { <<"s", "1", "!">> \o NL,                           \* s1!      no terminator
    <<"#", "c">> \o NL }                               \* #c       no rule at the start

Lines == RuleLines \cup BlankLines \cup BadLines

End0 == <<"e", "n", "d", "0", ".">>

\* How a file that follows the grammar may end.
GoodEndings ==
  { <<>>,                                              \* the file just ends
    End0 \o NL,                                        \* end0.
    <<"s", "e", "i", "3", "y", ".">> \o NL \o End0 \o NL, \* one more rule, then end0.
    <<"g", "n", "i", "3", ">", " ", "c">> }            \* a last line with no newline

Endings ==
  GoodEndings \cup
  { End0 \o NL \o <<"s", "1", ">">> \o NL \o <<"!">>,  \* end0. and more after it
    <<"NUL">> }                                        \* a zero byte

MaxLines == 2

\* The texts of at most n lines, each taken from the set ls.
RECURSIVE Bodies(_, _)
Bodies(n, ls) ==
  IF n = 0 THEN { <<>> }
  ELSE Bodies(n - 1, ls) \cup { b \o l : b \in Bodies(n - 1, ls), l \in ls }

RuleFiles == { b \o e : b \in Bodies(MaxLines, Lines), e \in Endings }

\* Those made of rules, blank lines and comments only.
GoodFiles ==
  { b \o e : b \in Bodies(MaxLines, RuleLines \cup BlankLines), e \in GoodEndings }

LongWord == [i \in 1..LONGSTR |-> "b"]

\* A word whose only vowel is its last letter, one place past what stem holds.
LongVowelWord == [i \in 1..LONGSTR |-> IF i = LONGSTR THEN "a" ELSE "b"]

Words ==
  { <<"t", "i", "e", "s">>,
    <<"p", "o", "n", "i", "e", "s">>,
    <<"a", "g", "e">>,
    <<"s", "i", "n", "g", "s">>,
    <<"a", "g", "e", "i", "n", "g">>,
    <<"s", "k", "y">>,
    <<"b", "y">>,
    <<"a">>,
    <<"b", "c", "d">>,
    LongWord,
    LongVowelWord }

\* The trace is followed for this many entries (the seed and the first rules
\* applied); what StemWord appends after them is not kept.
MaxTrace == 3

----------------------------------------------------------------------------
(* The program *)

Init ==
  /\ pc = "LoadRules"
  /\ input \in RuleFiles
  /\ pos = 0
  /\ file_ch = "NUL"
  /\ line = 0
  /\ rules = EmptyTable
  /\ ret = "none"
  /\ word = <<>>
  /\ tracing = FALSE
  /\ debug = <<>>
  /\ stem = <<>>
  /\ intact = 1
  /\ restem = 0
  /\ rule = <<>>

\* Line 152 reads a zero byte: the loop ends, lines 251-252.
LoadRules_EndOfLoop ==
  /\ pc = "LoadRules"
  /\ Getc = "NUL"
  /\ file_ch' = Getc
  /\ pos' = Advance(pos + 1)
  /\ ret' = "rules"
  /\ pc' = "returned"
  /\ UNCHANGED <<input, line, rules>>
  /\ UNCHANGED stemVars

\* Lines 154-155.
LoadRules_SkipSpace ==
  /\ pc = "LoadRules"
  /\ Getc # "NUL"
  /\ isspace(Getc)
  /\ file_ch' = Getc
  /\ pos' = Advance(pos + 1)
  /\ UNCHANGED <<pc, input, line, rules, ret>>
  /\ UNCHANGED stemVars

\* Lines 158-165.
LoadRules_InvalidStart ==
  /\ pc = "LoadRules"
  /\ Getc # "NUL"
  /\ ~isspace(Getc)
  /\ ~ValidIdx(RuleIdx(Getc))
  /\ file_ch' = Getc
  /\ pos' = Advance(pos + 1)
  /\ line' = line + 1
  /\ ret' = "NULL"
  /\ pc' = "returned"
  /\ UNCHANGED <<input, rules>>
  /\ UNCHANGED stemVars

\* Lines 158-220 on an entry whose terminator is neither > nor .
LoadRules_InvalidTerminator ==
  /\ pc = "LoadRules"
  /\ Getc # "NUL"
  /\ ~isspace(Getc)
  /\ ValidIdx(RuleIdx(Getc))
  /\ \E p \in {ParseRule(pos + 1, line + 1)} :
         /\ ~ValidTerminator(p.file_ch)
         /\ file_ch' = p.file_ch
         /\ pos' = Advance(p.at)
  /\ line' = line + 1
  /\ ret' = "NULL"
  /\ pc' = "returned"
  /\ UNCHANGED <<input, rules>>
  /\ UNCHANGED stemVars

\* Lines 158-230 on the pseudo-rule.
LoadRules_PseudoRule ==
  /\ pc = "LoadRules"
  /\ Getc # "NUL"
  /\ ~isspace(Getc)
  /\ ValidIdx(RuleIdx(Getc))
  /\ \E p \in {ParseRule(pos + 1, line + 1)} :
         /\ ValidTerminator(p.file_ch)
         /\ IsPseudoRule(p.rule)
         /\ file_ch' = p.file_ch
         /\ pos' = Advance(p.at)
  /\ line' = line + 1
  /\ ret' = "rules"
  /\ pc' = "returned"
  /\ UNCHANGED <<input, rules>>
  /\ UNCHANGED stemVars

\* Lines 158-245 on any other entry.
LoadRules_AddRule ==
  /\ pc = "LoadRules"
  /\ Getc # "NUL"
  /\ ~isspace(Getc)
  /\ ValidIdx(RuleIdx(Getc))
  /\ \E p \in {ParseRule(pos + 1, line + 1)} :
         /\ ValidTerminator(p.file_ch)
         /\ ~IsPseudoRule(p.rule)
         /\ file_ch' = p.file_ch
         /\ pos' = Advance(p.at)
         /\ rules' = AddRule(rules, RuleIdx(Getc), p.rule)
  /\ line' = line + 1
  /\ pc' = "comment"
  /\ UNCHANGED <<input, ret>>
  /\ UNCHANGED stemVars

\* Lines 248-249, one turn of the loop, or its end.
LoadRules_SkipComment ==
  /\ pc = "comment"
  /\ IF file_ch # "NUL" /\ file_ch # "\n"
       THEN /\ file_ch' = Getc
            /\ pos' = Advance(pos + 1)
            /\ pc' = pc
       ELSE /\ pc' = "LoadRules"
            /\ UNCHANGED <<file_ch, pos>>
  /\ UNCHANGED <<input, line, rules, ret>>
  /\ UNCHANGED stemVars

\* Lines 55-57 when LoadRules returned NULL: exit(1).
Main_LoadFailed ==
  /\ pc = "returned"
  /\ ret = "NULL"
  /\ pc' = "exit"
  /\ UNCHANGED loadVars
  /\ UNCHANGED stemVars

\* Lines 55-57 when it returned the table.  LoadRules' frame is gone and the
\* rule file is not read again.
Main_Loaded ==
  /\ pc = "returned"
  /\ ret = "rules"
  /\ pc' = "main"
  /\ input' = <<>>
  /\ pos' = 0
  /\ file_ch' = "NUL"
  /\ line' = 0
  /\ UNCHANGED <<rules, ret>>
  /\ UNCHANGED stemVars

\* StemWord_Reject with the trace seeded before the test of line 345.
StemWord_Reject_Seeded(w, dbg) ==
  /\ pc \in {"main", "done"}
  /\ ~IsValid(Trunc(w, LONGSTR - 1))
  /\ word' = w
  /\ tracing' = dbg
  /\ debug' = IF dbg THEN << [id |-> <<>>, stem |-> Trunc(w, LONGSTR - 1)] >> ELSE <<>>
  /\ stem' = Trunc(w, LONGSTR - 1)
  /\ pc' = "done"
  /\ UNCHANGED <<intact, restem, rule>>
  /\ UNCHANGED loadVars

\* StemWord, lines 338-346, on a word that fails IsValid.
StemWord_Reject(w, dbg) ==
  /\ pc \in {"main", "done"}
  /\ ~IsValid(Trunc(w, LONGSTR - 1))
  /\ word' = w
  /\ tracing' = dbg
  /\ debug' = <<>>
  /\ stem' = Trunc(w, LONGSTR - 1)
  /\ pc' = "done"
  /\ UNCHANGED <<intact, restem, rule>>
  /\ UNCHANGED loadVars

\* StemWord_Enter without line 351: intact is what the call before left.
StemWord_Enter_StaleIntact(w, dbg) ==
  /\ pc \in {"main", "done"}
  /\ IsValid(Trunc(w, LONGSTR - 1))
  /\ word' = w
  /\ tracing' = dbg
  /\ stem' = Trunc(w, LONGSTR - 1)
  /\ debug' = IF dbg THEN << [id |-> <<>>, stem |-> Trunc(w, LONGSTR - 1)] >> ELSE <<>>
  /\ restem' = 1
  /\ pc' = "while"
  /\ UNCHANGED <<intact, rule>>
  /\ UNCHANGED loadVars

\* StemWord, lines 338-352, on a word that passes.
StemWord_Enter(w, dbg) ==
  /\ pc \in {"main", "done"}
  /\ IsValid(Trunc(w, LONGSTR - 1))
  /\ word' = w
  /\ tracing' = dbg
  /\ stem' = Trunc(w, LONGSTR - 1)
  /\ debug' = IF dbg THEN << [id |-> <<>>, stem |-> Trunc(w, LONGSTR - 1)] >> ELSE <<>>
  /\ intact' = 1
  /\ restem' = 1
  /\ pc' = "while"
  /\ UNCHANGED rule
  /\ UNCHANGED loadVars

\* Line 353 with restem = 0: StemWord returns.
StemWord_Exit ==
  /\ pc = "while"
  /\ restem = 0
  /\ pc' = "done"
  /\ UNCHANGED stemVars
  /\ UNCHANGED loadVars

\* The letter line 359 reads and the index line 360 uses.
LastLetter(s) == s[Len(s)]

\* The index taken from the stem's first letter.
BucketIdx_First(s) == Ord(s[1]) - 97

BucketIdx(s) == Ord(LastLetter(s)) - 97

\* Lines 353-360: a pass begins at the head of the last letter's list.
StemWord_Pass ==
  /\ pc = "while"
  /\ restem # 0
  /\ ValidIdx(BucketIdx(stem))
  /\ restem' = 0
  /\ rule' = rules[BucketIdx(stem)]
  /\ pc' = "for"
  /\ UNCHANGED <<word, tracing, debug, stem, intact>>
  /\ UNCHANGED loadVars

\* Lines 353-360 when the index is outside the table: rules[...] reads memory
\* that is not the table's.  The read may fault, or give a null pointer.
StemWord_PassOutside ==
  /\ pc = "while"
  /\ restem # 0
  /\ ~ValidIdx(BucketIdx(stem))
  /\ restem' = 0
  /\ \/ pc' = "fault" /\ UNCHANGED rule
     \/ pc' = "for" /\ rule' = <<>>
  /\ UNCHANGED <<word, tracing, debug, stem, intact>>
  /\ UNCHANGED loadVars

\* Wins without the test of line 368.
Wins_Unchecked(r, s, isIntact) == RuleMatches(r, s, isIntact)

\* Lines 363-369: the rule at hand wins.
Wins(r, s, isIntact) == RuleMatches(r, s, isIntact) /\ IsValid(ApplyRule(r, s))

\* Lines 360-369: the rule does not match or its result is not valid; on to
\* the next one.
StemWord_Skip ==
  /\ pc = "for"
  /\ rule # <<>>
  /\ ~Wins(Head(rule), stem, intact)
  /\ rule' = Tail(rule)
  /\ UNCHANGED <<pc, word, tracing, debug, stem, intact, restem>>
  /\ UNCHANGED loadVars

\* Lines 375-381.
Trace(d, r, s) ==
  IF Len(d) < MaxTrace THEN Append(d, [id |-> r.id, stem |-> s]) ELSE d

\* Line 382 as restem = 1.
Restem_Always(r) == 1

\* Line 382.
Restem(r) == r.restem

\* Lines 360-383: the rule is applied.
StemWord_Apply ==
  /\ pc = "for"
  /\ rule # <<>>
  /\ Wins(Head(rule), stem, intact)
  /\ stem' = Trunc(ApplyRule(Head(rule), stem), LONGSTR - 1)
  /\ intact' = 0
  /\ debug' = IF tracing THEN Trace(debug, Head(rule), stem') ELSE debug
  /\ restem' = Restem(Head(rule))
  /\ pc' = "while"
  /\ UNCHANGED <<word, tracing, rule>>
  /\ UNCHANGED loadVars

\* Line 360 with rule = NULL: the list is at its end.
StemWord_BucketEnd ==
  /\ pc = "for"
  /\ rule = <<>>
  /\ pc' = "while"
  /\ UNCHANGED stemVars
  /\ UNCHANGED loadVars

LoadRules ==
  \/ LoadRules_EndOfLoop
  \/ LoadRules_SkipSpace
  \/ LoadRules_InvalidStart
  \/ LoadRules_InvalidTerminator
  \/ LoadRules_PseudoRule
  \/ LoadRules_AddRule
  \/ LoadRules_SkipComment

StemWord ==
  \/ \E w \in Words, dbg \in BOOLEAN : StemWord_Reject(w, dbg)
  \/ \E w \in Words, dbg \in BOOLEAN : StemWord_Enter(w, dbg)
  \/ StemWord_Exit
  \/ StemWord_Pass
  \/ StemWord_PassOutside
  \/ StemWord_Skip
  \/ StemWord_Apply
  \/ StemWord_BucketEnd

Next ==
  \/ LoadRules
  \/ Main_LoadFailed
  \/ Main_Loaded
  \/ StemWord

Spec == Init /\ [][Next]_vars

\* The steps of StemWord's loop.
StemWord_Loop ==
  \/ StemWord_Exit
  \/ StemWord_Pass
  \/ StemWord_PassOutside
  \/ StemWord_Skip
  \/ StemWord_Apply
  \/ StemWord_BucketEnd

\* StemWord, once called, keeps running while it has a step to take.
FairSpec == Spec /\ WF_vars(StemWord_Loop)

\* LoadRules, once called, keeps running while it has a step to take.
LoadFairSpec == Spec /\ WF_vars(LoadRules)

----------------------------------------------------------------------------
(* IsValid on its own *)

Letters == {"a", "e", "i", "o", "u", "y", "b", "t"}

MaxStr == 3

\* The strings of at most n letters.
Strings(n) == UNION { [1..k -> Letters] : k \in 0..n }

IsValid_Init ==
  /\ pc = "IsValid"
  /\ stem \in Strings(MaxStr)
  /\ input = <<>>
  /\ pos = 0
  /\ file_ch = "NUL"
  /\ line = 0
  /\ rules = EmptyTable
  /\ ret = "none"
  /\ word = <<>>
  /\ tracing = FALSE
  /\ debug = <<>>
  /\ intact = 1
  /\ restem = 0
  /\ rule = <<>>

\* IsValid(stem), lines 262-280.
IsValid_Call ==
  /\ pc = "IsValid"
  /\ ret' = IF IsValid(stem) THEN "1" ELSE "0"
  /\ pc' = "IsValid returned"
  /\ UNCHANGED <<input, pos, file_ch, line, rules>>
  /\ UNCHANGED stemVars

IsValidSpec == IsValid_Init /\ [][IsValid_Call]_vars

----------------------------------------------------------------------------
(* ApplyRule on its own *)

MaxRemove == 4

\* What a rule may append.
Appends == { <<>>, <<"y">>, <<"a", "t">> }

\* Stems that fill the buffer, or all but one place of it.
LongStems == { [i \in 1..n |-> "b"] : n \in {LONGSTR - 2, LONGSTR - 1} }

\* StemWord calls ApplyRule with a rule that matches the stem (lines 363-367):
\* the stem is not empty and ends in the rule's suffix.
ApplyRule_Init ==
  /\ pc = "ApplyRule"
  /\ stem \in (Strings(MaxStr) \ { <<>> }) \cup LongStems
  /\ \E n \in 0..MaxRemove, a \in Appends :
       rule = << [ intact |-> 0,
                   remove |-> n,
                   restem |-> 0,
                   suffix |-> <<LastLetter(stem)>>,
                   append |-> a,
                   id     |-> <<>> ] >>
  /\ input = <<>>
  /\ pos = 0
  /\ file_ch = "NUL"
  /\ line = 0
  /\ rules = EmptyTable
  /\ ret = "none"
  /\ word = <<>>
  /\ tracing = FALSE
  /\ debug = <<>>
  /\ intact = 0
  /\ restem = 0

\* ApplyRule(rule, stem, result), lines 306-320; ret is what it leaves in
\* result.
ApplyRule_Call ==
  /\ pc = "ApplyRule"
  /\ ret' = ApplyRule(Head(rule), stem)
  /\ pc' = "ApplyRule returned"
  /\ UNCHANGED <<input, pos, file_ch, line, rules>>
  /\ UNCHANGED stemVars

ApplyRuleSpec == ApplyRule_Init /\ [][ApplyRule_Call]_vars

----------------------------------------------------------------------------
(* What the claims speak of *)

\* The place of a letter in the alphabet, a = 0 to z = 25; -1 for any other
\* character.
LetterIdx(c) == IF Has(LowerCase, c) THEN IndexOf(LowerCase, c) - 1 ELSE 0 - 1

\* The bucket of the letter a stem ends in; a stem that ends in no letter a-z
\* has no bucket, and so no rules.
Bucket(s) ==
  IF s # <<>> /\ LetterIdx(s[Len(s)]) >= 0 THEN rules[LetterIdx(s[Len(s)])] ELSE <<>>

\* t is a tail of s.
IsTail(t, s) ==
  /\ Len(t) <= Len(s)
  /\ \A i \in 1..Len(t) : s[Len(s) - Len(t) + i] = t[i]

\* The three conditions of C2 for rule r on stem s.
Eligible(r, s, isIntact) ==
  /\ ~(r.intact = 1 /\ isIntact = 0)
  /\ IsTail(r.suffix, s)
  /\ IsValid(ApplyRule(r, s))

\* The place in the list b of its first eligible rule, 0 if it has none.
FirstEligible(b, s, isIntact) ==
  IF \E i \in 1..Len(b) : Eligible(b[i], s, isIntact)
    THEN CHOOSE i \in 1..Len(b) :
           /\ Eligible(b[i], s, isIntact)
           /\ \A j \in 1..(i - 1) : ~Eligible(b[j], s, isIntact)
    ELSE 0

\* How many rules of the bucket the scan has left behind.
Behind == Len(Bucket(stem)) - Len(rule)

\* The step applies the rule at hand.
ApplyStep == pc = "for" /\ rule # <<>> /\ pc' = "while"

----------------------------------------------------------------------------
(* C1 *)

\* C1, as stated: StemWord called on any word w that fails IsValid returns at
\* once with stem = w and an empty trace; no rule is looked at.
C1_AnyWord ==
  [][ (pc \in {"main", "done"} /\ ~IsValid(word'))
        => (pc' = "done" /\ stem' = word' /\ debug' = <<>> /\ rule' = rule) ]_vars

\* C1, amended: the same for every word w of at most LONGSTR - 1 characters.
C1_Rejected ==
  [][ (pc \in {"main", "done"} /\ ~IsValid(word') /\ Len(word') < LONGSTR)
        => (pc' = "done" /\ stem' = word' /\ debug' = <<>> /\ rule' = rule) ]_vars

\* A traced call on a word that fails IsValid has returned the word, although a
\* rule of the table would have won on it.
C1_Witness ==
  /\ pc = "done"
  /\ tracing
  /\ word # <<>>
  /\ ~IsValid(word)
  /\ stem = word
  /\ debug = <<>>
  /\ \E i \in 1..Len(Bucket(word)) : Wins(Bucket(word)[i], word, 1)

----------------------------------------------------------------------------
(* C2 *)

\* C2: at every step of the scan the rules left behind in the bucket of the
\* stem's last letter are not eligible, the rule at hand is applied if it is
\* eligible (it is then the first eligible one of the bucket, the stem becomes
\* its candidate and the scan stops) and skipped for the next one if it is
\* not; at the end of the list the stem is as it was and the loop ends.
C2_FirstEligible ==
  [][ /\ pc = "for" =>
           LET b == Bucket(stem)
               w == FirstEligible(b, stem, intact)
           IN  /\ Behind >= 0
               /\ rule = SubSeq(b, Behind + 1, Len(b))
               /\ w = 0 \/ Behind < w
               /\ IF w # 0 /\ Behind + 1 = w
                    THEN /\ pc' = "while"
                         /\ stem' = ApplyRule(b[w], stem)
                         /\ (tracing /\ Len(debug) < MaxTrace)
                              => debug' = Append(debug, [id |-> b[w].id, stem |-> stem'])
                    ELSE IF rule # <<>>
                    THEN pc' = "for" /\ rule' = Tail(rule) /\ stem' = stem
                    ELSE pc' = "while" /\ stem' = stem /\ restem' = 0
      /\ (pc = "while" /\ restem = 0) => (pc' = "done" /\ stem' = stem) ]_vars

\* The scan has skipped a rule whose suffix matched and whose candidate is not
\* valid, and is at a rule that is eligible.
C2_Witness ==
  /\ pc = "for"
  /\ rule # <<>>
  /\ Behind >= 1
  /\ IsTail(Bucket(stem)[1].suffix, stem)
  /\ ~IsValid(ApplyRule(Bucket(stem)[1], stem))
  /\ Eligible(Head(rule), stem, intact)

----------------------------------------------------------------------------
(* C3 *)

\* The ids of the rules a traced call has applied after its first one.
LaterIds == { debug[i].id : i \in 3..Len(debug) }

\* C3: during a call intact only goes from 1 to 0, and does so at the first
\* rule applied (in a traced call intact = 1 exactly while the trace holds the
\* seed alone); a rule that is intact-only is applied only while intact = 1,
\* so none of the rules applied after the first is intact-only.
C3_Intact ==
  [][ /\ pc \in {"while", "for"} =>
           /\ intact = 0 => intact' = 0
           /\ intact' # intact => ApplyStep
           /\ ApplyStep => intact' = 0
           /\ tracing => (intact = 1 <=> Len(debug) = 1)
      /\ (ApplyStep /\ Head(rule).intact = 1) => intact = 1
      /\ (tracing /\ pc \in {"while", "for", "done"})
           => \A id \in LaterIds : ~strchr(id, "*") ]_vars

\* A rule has been applied, and the scan is at an intact-only rule whose suffix
\* matches and whose candidate is valid.
C3_Witness ==
  /\ pc = "for"
  /\ intact = 0
  /\ rule # <<>>
  /\ Head(rule).intact = 1
  /\ IsTail(Head(rule).suffix, stem)
  /\ IsValid(ApplyRule(Head(rule), stem))

----------------------------------------------------------------------------
(* C4 *)

\* C4: applying a rule sets restem to the rule's restem; at the loop's head
\* restem = 0 makes StemWord return with the stem as it is, so after a rule
\* that does not continue no rule is looked at again; restem = 1 makes the loop
\* run again (it does not return), and when the new stem ends in a letter a-z
\* the scan starts at the head of that letter's bucket.
C4_Restem ==
  [][ /\ ApplyStep => (restem' = Head(rule).restem /\ stem' = ApplyRule(Head(rule), stem))
      /\ (pc = "while" /\ restem = 0) => (pc' = "done" /\ stem' = stem)
      /\ (pc = "while" /\ restem # 0)
           => /\ pc' # "done"
              /\ restem' = 0
              /\ stem' = stem
              /\ LetterIdx(stem[Len(stem)]) >= 0
                   => (pc' = "for" /\ rule' = Bucket(stem)) ]_vars

\* A call has returned after a rule that does not continue, with a stem on
\* which a rule of the table would have won.
C4_Witness ==
  /\ pc = "done"
  /\ intact = 0
  /\ restem = 0
  /\ stem # word
  /\ FirstEligible(Bucket(stem), stem, 0) # 0

----------------------------------------------------------------------------
(* C6 *)

\* The rules of the list l.
RulesOf(l) == { l[i] : i \in 1..Len(l) }

\* C6: during the scan the rule at hand and those still to come are the rest
\* of the bucket of the stem's last letter, and none of them is a rule of
\* another bucket.
C6_OwnBucket ==
  pc = "for" =>
    /\ Behind >= 0
    /\ rule = SubSeq(Bucket(stem), Behind + 1, Len(Bucket(stem)))
    /\ \A i \in 0..25 :
         i # LetterIdx(stem[Len(stem)]) => RulesOf(rule) \cap RulesOf(rules[i]) = {}

\* The scan is at a rule, for a stem that a rule has produced, and another
\* bucket holds rules too.
C6_Witness ==
  /\ pc = "for"
  /\ intact = 0
  /\ rule # <<>>
  /\ \E i \in 0..25 : i # LetterIdx(stem[Len(stem)]) /\ rules[i] # <<>>

----------------------------------------------------------------------------
(* C5 *)

\* C5: every call of StemWord that enters the loop leaves it and returns.
C5_Returns == (pc = "while") ~> (pc = "done")

----------------------------------------------------------------------------
(* C7 *)

Vowels == {"a", "e", "i", "o", "u"}

\* The rule of C7.
Acceptable(s) ==
  \/ Len(s) >= 2 /\ s[1] \in Vowels
  \/ /\ Len(s) >= 3
     /\ s[1] \notin Vowels
     /\ \E i \in 1..Len(s) : s[i] \in Vowels \cup {"y"}

\* C7: IsValid returns 1 for the strings that start with a vowel and have two
\* characters or more, and for those that start with another character, have
\* three or more and hold one of a, e, i, o, u, y; for all others, the empty
\* string among them, it returns 0.
C7_IsValid ==
  pc = "IsValid returned" => (ret = "1" <=> Acceptable(stem))

\* IsValid has returned 1 for a string of three letters with no vowel but y.
C7_Witness ==
  /\ pc = "IsValid returned"
  /\ ret = "1"
  /\ Len(stem) = 3
  /\ \A i \in 1..Len(stem) : stem[i] \notin Vowels

----------------------------------------------------------------------------
(* C8 *)

\* s read backwards.
Mirror(s) == [i \in 1..Len(s) |-> s[Len(s) + 1 - i]]

\* The letters the entry began with, as its id holds them after the colon.
RawRun(id) ==
  LET colon == CHOOSE i \in 1..Len(id) : id[i] = ":"
      n     == CHOOSE k \in 0..(Len(id) - colon) :
                 /\ \A j \in 1..k : isalpha(id[colon + j])
                 /\ k < Len(id) - colon => ~isalpha(id[colon + k + 1])
  IN  SubSeq(id, colon + 1, colon + n)

\* The rules of the table.
AllRules == UNION { RulesOf(rules[i]) : i \in 0..25 }

\* C8: the suffix of every rule in the table, read backwards, is the run of
\* letters its entry began with.
C8_Reversed == \A r \in AllRules : Mirror(r.suffix) = RawRun(r.id)

\* The table holds rules whose entries began with one, with two and with three
\* letters, and a suffix that differs from its entry's letters.
C8_Witness ==
  /\ \A n \in 1..3 : \E r \in AllRules : Len(r.suffix) = n
  /\ \E r \in AllRules : r.suffix # RawRun(r.id)

----------------------------------------------------------------------------
(* C9 *)

\* An entry starts at place k of the file (the character there is not white
\* space) with a character outside a-z, or the character at its terminator's
\* place is neither > nor a full stop.
BadEntry(k) ==
  /\ At(k) # "EOF"
  /\ ~isspace(At(k))
  /\ \/ LetterIdx(At(k)) < 0
     \/ ParseRule(k, 0).file_ch \notin {">", "."}

\* C9: when the entry LoadRules comes to is a bad one, LoadRules returns NULL.
C9_Fails ==
  [][ (pc = "LoadRules" /\ BadEntry(pos + 1))
        => (pc' = "returned" /\ ret' = "NULL") ]_vars

----------------------------------------------------------------------------
(* C10 *)

\* C10: on a file of rules, blank lines and comments only, LoadRules returns a
\* table.
C10_Table == (pc = "returned" /\ input \in GoodFiles) => ret = "rules"

----------------------------------------------------------------------------
(* C11 *)

\* The entry that starts at place k of the file is the pseudo-rule end0.
PseudoRuleAt(k) == \A i \in 1..Len(End0) : At(k + i - 1) = End0[i]

\* C11: when LoadRules comes to the pseudo-rule it returns, and what it returns
\* is the table as it stood before the pseudo-rule: the pseudo-rule is added to
\* no bucket, nothing after it is read, and whatever follows it in the file
\* (well-formed or not) neither changes the table nor makes the result NULL.
C11_Stops ==
  [][ (pc = "LoadRules" /\ PseudoRuleAt(pos + 1))
        => /\ pc' = "returned"
           /\ ret' = "rules"
           /\ rules' = rules
           /\ pos' = pos + Len(End0) ]_vars

\* LoadRules has returned a table with rules in it from the pseudo-rule, and
\* the file goes on after it with one more rule and a character no entry may
\* start with.
C11_Witness ==
  /\ pc = "returned"
  /\ ret = "rules"
  /\ AllRules # {}
  /\ pos >= Len(End0)
  /\ PseudoRuleAt(pos - Len(End0) + 1)
  /\ \E i \in (pos + 1)..Len(input) : input[i] = "!"

----------------------------------------------------------------------------
(* C12 *)

\* What the passes of C2 make of stem s under the table as it is, the word
\* untouched so far or not: the first eligible rule of the stem's bucket is
\* applied, and the next pass follows if the rule says so.
RECURSIVE StemFrom(_, _)
StemFrom(s, isIntact) ==
  LET b == Bucket(s)
      i == FirstEligible(b, s, isIntact)
      t == Trunc(ApplyRule(b[i], s), LONGSTR - 1)
  IN  IF i = 0 THEN s
      ELSE IF b[i].restem = 1 THEN StemFrom(t, 0)
      ELSE t

\* The stem of word w under the table as it is: a function of the two alone.
StemOf(w) ==
  LET s == Trunc(w, LONGSTR - 1)
  IN  IF IsValid(s) THEN StemFrom(s, 1) ELSE s

\* StemWord is running or has run.
InStemWord == pc \in {"main", "while", "for", "done", "fault"}

\* C12: no step of any StemWord call changes the rule table, and the stem a
\* call returns is the one that follows from its word and the table alone,
\* whatever words were stemmed before it.
C12_TableOnly ==
  /\ [][InStemWord => rules' = rules]_vars
  /\ [](pc = "done" => stem = StemOf(word))

\* A call has returned a word that fails IsValid, after an earlier call on
\* another word whose scan applied a rule; the table still holds its rules.
C12_Witness ==
  /\ pc = "done"
  /\ ~IsValid(word)
  /\ intact = 0
  /\ rule # <<>>
  /\ AllRules # {}

----------------------------------------------------------------------------
(* C13 *)

\* C13: in every table LoadRules returns, each rule's suffix is non-empty and
\* is made of the lowercase letters a-z alone.
C13_Lowercase ==
  (pc = "returned" /\ ret = "rules")
    => \A r \in AllRules :
         /\ r.suffix # <<>>
         /\ \A i \in 1..Len(r.suffix) : LetterIdx(r.suffix[i]) >= 0

----------------------------------------------------------------------------
(* C14 *)

\* C14: each rule of the table sits in the bucket of the character its entry
\* began with, and that character is the last letter of the suffix the rule
\* holds: every rule in the bucket of letter c has a suffix that ends in c.
C14_Keyed ==
  \A i \in 0..25 : \A r \in RulesOf(rules[i]) :
    /\ LetterIdx(RawRun(r.id)[1]) = i
    /\ r.suffix # <<>>
    /\ r.suffix[Len(r.suffix)] = LowerCase[i + 1]

\* LoadRules has returned a table with rules in three buckets, one of them a
\* rule whose suffix starts with another letter than it ends in.
C14_Witness ==
  /\ pc = "returned"
  /\ ret = "rules"
  /\ Cardinality({ i \in 0..25 : rules[i] # <<>> }) >= 3
  /\ \E r \in AllRules : r.suffix[1] # r.suffix[Len(r.suffix)]

----------------------------------------------------------------------------
(* C15 *)

\* The number of the entry a rule came from, as its id holds it before the
\* colon: entries are numbered in the order the file defines them.
IdLine(id) ==
  LET colon == CHOOSE i \in 1..Len(id) : id[i] = ":"
  IN  atoi(SubSeq(id, 2, colon - 1))

\* C15: within each bucket the rules stand in the order the file defines
\* them, whatever entries of other buckets come in between.
C15_InOrder ==
  \A i \in 0..25 : \A j, k \in 1..Len(rules[i]) :
    j < k => IdLine(rules[i][j].id) < IdLine(rules[i][k].id)

\* LoadRules has returned a table in which a bucket holds two rules that are
\* not the same, and the file defines a rule of another bucket between them.
C15_Witness ==
  /\ pc = "returned"
  /\ ret = "rules"
  /\ \E i, m \in 0..25 :
       /\ i # m
       /\ Len(rules[i]) >= 2
       /\ rules[i][1].suffix # rules[i][2].suffix
       /\ \E r \in RulesOf(rules[m]) :
            /\ IdLine(rules[i][1].id) < IdLine(r.id)
            /\ IdLine(r.id) < IdLine(rules[i][2].id)

----------------------------------------------------------------------------
(* C16 *)

\* The candidate of C16: stem s without its last min(remove, length)
\* characters, followed by what the rule appends.
Candidate(r, s) ==
  SubSeq(s, 1, Len(s) - (IF r.remove < Len(s) THEN r.remove ELSE Len(s))) \o r.append

\* C16, as stated: ApplyRule gives the stem with its last min(remove, length)
\* characters deleted, followed by the append string; a remove count larger
\* than the stem's length leaves just the append string.
C16_AsStated ==
  pc = "ApplyRule returned" => ret = Candidate(Head(rule), stem)

\* C16, amended: ApplyRule gives the first LONGSTR - 1 characters of that; the
\* whole of it when it has no more than LONGSTR - 1.
C16_Candidate ==
  pc = "ApplyRule returned" =>
    /\ ret = SubSeq(Candidate(Head(rule), stem), 1,
                    IF Len(Candidate(Head(rule), stem)) < LONGSTR
                      THEN Len(Candidate(Head(rule), stem)) ELSE LONGSTR - 1)
    /\ Head(rule).remove > Len(stem) => ret = Head(rule).append

\* ApplyRule has been given a rule that removes more characters than the stem
\* has and appends two, and has left just those two.
C16_Witness ==
  /\ pc = "ApplyRule returned"
  /\ Head(rule).remove > Len(stem)
  /\ Len(Head(rule).append) = 2
  /\ ret = Head(rule).append

----------------------------------------------------------------------------
(* C17 *)

\* A call of StemWord is under way or has ended.
Called == pc \in {"while", "for", "done", "fault"}

\* C17, as stated: for a word that passes IsValid, every value the stem takes
\* in StemWord, the one returned among them, passes IsValid too.
C17_AnyWord == (Called /\ IsValid(word)) => IsValid(stem)

\* C17, amended: the same for every word of at most LONGSTR - 1 characters.
C17_Valid == (Called /\ IsValid(word) /\ Len(word) < LONGSTR) => IsValid(stem)

\* StemWord has returned a stem that a rule produced, and a rule of the
\* stem's bucket whose suffix the stem ends in was passed over because what it
\* would leave fails IsValid.
C17_Witness ==
  /\ pc = "done"
  /\ IsValid(word)
  /\ stem # word
  /\ \E r \in RulesOf(Bucket(stem)) :
       /\ r.intact = 0
       /\ IsTail(r.suffix, stem)
       /\ ~IsValid(ApplyRule(r, stem))

----------------------------------------------------------------------------
(* C18 *)

\* C18: whenever a pass of StemWord's loop looks up a bucket, for a lowercase
\* word and a table LoadRules returned, the stem is not empty and its last
\* character is one of a-z, so the index is one of 0..25; also after rules
\* have appended their strings.
C18_InTable ==
  (pc = "while" /\ restem # 0)
    => /\ stem # <<>>
       /\ LetterIdx(stem[Len(stem)]) \in 0..25

----------------------------------------------------------------------------
(* C19 *)

\* C19: on every finite rule file LoadRules comes to an end and returns, a
\* table or NULL; also when the file ends inside a trailing comment or
\* without the pseudo-rule.
C19_Terminates == (pc = "LoadRules") ~> (pc = "returned")

====
